---- MODULE Spec2Model ----
(***************************************************************************)
(* A model of ee.Image (javascript/src/image.js): the overloaded           *)
(* constructor, the lazy import of the API members (initialize / reset),   *)
(* the band combination helpers (rgb, cat, combine_), select and           *)
(* expression.  The expression graph is a heap of immutable call nodes;    *)
(* an object's identity is its index in the heap.                          *)
(***************************************************************************)
EXTENDS Integers, Sequences, FiniteSets, TLC

VARIABLES
  heap,          \* the ee.ComputedObject instances built so far, by identity
  initialized_,  \* ee.Image.initialized_
  members,       \* the API members installed on ee.Image and its prototype
  registry,      \* the signatures ee.ApiFunction currently knows
  imports,       \* how many times initialize imported since the last clearApi
  last,          \* the last call made on the public surface and its outcome
  pc,            \* where each interleaved caller of initialize stands
  calls          \* how many calls of initialize each such caller has begun

vars == <<heap, initialized_, members, registry, imports, last, pc, calls>>

(***************************************************************************)
(* Bounds of the model.                                                    *)
(***************************************************************************)
\* Longest argument list, sequence argument and variable map.
MaxLen == 3
\* Calls on the graph-building surface are made while the heap is no longer.
MaxHeap == 2
\* Interleaved callers of initialize, and the calls each of them makes.
NumCallers == 2
MaxCalls == 2

(***************************************************************************)
(* JavaScript values.  Every value is a record of one shape: k is the      *)
(* runtime type, n a number or the identity of a ComputedObject, s a       *)
(* string, l the elements of an array.                                     *)
(***************************************************************************)
Undef == [k |-> "undef", n |-> 0, s |-> "", l |-> <<>>]
Num(x) == [k |-> "num", n |-> x, s |-> "", l |-> <<>>]
Str(x) == [k |-> "str", n |-> 0, s |-> x, l |-> <<>>]
List(x) == [k |-> "list", n |-> 0, s |-> "", l |-> x]
Ref(i) == [k |-> "ref", n |-> i, s |-> "", l |-> <<>>]
\* A plain object that is no array and no ComputedObject.
PlainObj == [k |-> "obj", n |-> 0, s |-> "", l |-> <<>>]

SeqsUpTo(S, n) == UNION {[1..k -> S] : k \in 0..n}

\* goog.isDef
IsDef(v) == v.k # "undef"
\* goog.isArray
IsArray(v) == v.k = "list"
\* ee.Types.isNumber / ee.Types.isString on plain values
IsNumber(v) == v.k = "num"
IsString(v) == v.k = "str"
\* JavaScript truthiness, as `if (opt_names)` tests it
Truthy(v) == CASE v.k = "undef" -> FALSE
               [] v.k = "num" -> v.n # 0
               [] v.k = "str" -> v.s # ""
               [] OTHER -> TRUE

\* v instanceof ee.ComputedObject
IsComputedObject(h, v) == v.k = "ref" /\ v.n \in 1..Len(h)
\* v instanceof ee.Image
IsImage(h, v) == IsComputedObject(h, v) /\ h[v.n].name = "Image"

(***************************************************************************)
(* Functions and call nodes.                                               *)
(***************************************************************************)
\* new ee.ApiFunction(name): its signature lives in the registry.
ApiFunction(name) == [name |-> name, sig |-> <<>>, returns |-> "", body |-> 0]

\* The outcome of a call that builds graph nodes: ok is false when it threw,
\* id is the object returned, heap the heap afterwards, init whether
\* ee.Image.initialize() was called on the way.
Threw(h, init) == [ok |-> FALSE, id |-> 0, heap |-> h, init |-> init]
Returned(h, id, init) == [ok |-> TRUE, id |-> id, heap |-> h, init |-> init]

\* goog.base(this, func, args): the ee.ComputedObject constructor on a fresh
\* ee.Image instance.
NewImage(h, func, args) ==
  Returned(Append(h, [name |-> "Image", func |-> func, args |-> args]),
           Len(h) + 1, TRUE)

\* ee.ApiFunction._apply(name, namedArgs): a call node over the named
\* arguments, returned as an ee.Image.
ApiApply(h, name, namedArgs) == NewImage(h, ApiFunction(name), namedArgs)

\* The parameter names a positional ee.ApiFunction._call binds, in order.
ArgNames == <<"arg1", "arg2", "arg3">>
Positional(vals) ==
  [a \in {ArgNames[i] : i \in DOMAIN vals} |->
     vals[CHOOSE i \in DOMAIN vals : ArgNames[i] = a]]

\* The declared parameter types of the operations image.js calls by position.
SignatureTypes(name) ==
  CASE name = "Image.addBands" -> <<"Image", "Image">>
    [] name = "Image.parseExpression" -> <<"String", "String", "List">>
    [] OTHER -> <<>>

(***************************************************************************)
(* ee.Image.prototype.select                                               *)
(***************************************************************************)
\* A select that verifies nothing.
LegalSelectorAny(h, v) == TRUE

\* What the verification loop of select accepts.
LegalSelector(h, v) == IsString(v) \/ IsNumber(v) \/ IsComputedObject(h, v)

\* A select that spreads its arguments only after a string.
IsVarargsSelectStringsOnly(opt_selectors) == IsString(opt_selectors)

\* The branch of select that treats every argument as a selector.
IsVarargsSelect(opt_selectors) == IsString(opt_selectors) \/ IsNumber(opt_selectors)

select(h, self, args) ==
  LET given == IF Len(args) > 0 THEN args[1] ELSE Undef
      opt_names == IF Len(args) > 1 THEN args[2] ELSE Undef
      opt_selectors == IF IsDef(given) THEN given ELSE List(<<>>)
  IN IF IsVarargsSelect(opt_selectors)
       THEN IF \E i \in DOMAIN args : ~LegalSelector(h, args[i])
              THEN Threw(h, FALSE)
              ELSE ApiApply(h, "Image.select",
                            [input |-> Ref(self), bandSelectors |-> List(args)])
       ELSE IF Truthy(opt_names)
              THEN ApiApply(h, "Image.select",
                            [input |-> Ref(self), bandSelectors |-> opt_selectors,
                             newNames |-> opt_names])
              ELSE ApiApply(h, "Image.select",
                            [input |-> Ref(self), bandSelectors |-> opt_selectors])

(***************************************************************************)
(* The ee.Image constructor and ee.Image.combine_                          *)
(***************************************************************************)
RECURSIVE Image(_, _), ImageEach(_, _, _), combine_(_, _, _)
RECURSIVE AppendBands(_, _, _), PromoteArgs(_, _, _, _), ApiCall(_, _, _)

\* A constructor that wraps an ee.Image like any other ComputedObject.
ReturnsArgumentNever(h, args) == FALSE

\* `opt_args instanceof ee.Image`: the constructor returns its argument.
ReturnsArgument(h, args) == Len(args) > 0 /\ IsImage(h, args[1])

\* A constructor that takes only an undefined argument for none.
IsEmptyCallUndefinedOnly(args) == Len(args) = 1 /\ ~IsDef(args[1])

\* `argCount == 0 || (argCount == 1 && !goog.isDef(opt_args))`
IsEmptyCall(args) == Len(args) = 0 \/ (Len(args) = 1 /\ ~IsDef(args[1]))

\* The two-argument form: an asset id and a version.
IsIdAndVersion(args) == IsString(args[1]) /\ IsNumber(args[2])

\* ee.promote_(value, type) as ee.Function.promoteArgs applies it to each
\* positional argument of a call: a parameter declared Image is built with
\* the ee.Image constructor, any other is passed as it is.
PromoteArgs(h, args, types, done) ==
  IF Len(done) = Len(args) THEN [ok |-> TRUE, heap |-> h, vals |-> done]
  ELSE LET i == Len(done) + 1 IN
       IF i <= Len(types) /\ types[i] = "Image"
         THEN LET r == Image(h, <<args[i]>>) IN
              IF r.ok THEN PromoteArgs(r.heap, args, types, Append(done, Ref(r.id)))
              ELSE [ok |-> FALSE, heap |-> h, vals |-> done]
         ELSE PromoteArgs(h, args, types, Append(done, args[i]))

\* ee.ApiFunction._call(name, var_args)
ApiCall(h, name, args) ==
  LET promoted == PromoteArgs(h, args, SignatureTypes(name), <<>>) IN
  IF promoted.ok
    THEN NewImage(promoted.heap, ApiFunction(name), Positional(promoted.vals))
    ELSE Threw(h, TRUE)

\* goog.array.map(opt_args, function(elem) { return new ee.Image(elem); })
ImageEach(h, elems, done) ==
  IF Len(done) = Len(elems) THEN [ok |-> TRUE, heap |-> h, vals |-> done]
  ELSE LET r == Image(h, <<elems[Len(done) + 1]>>) IN
       IF r.ok THEN ImageEach(r.heap, elems, Append(done, Ref(r.id)))
       ELSE [ok |-> FALSE, heap |-> h, vals |-> done]

\* A loop that adds the result to each image instead.
AppendBandsSwapped(result, images, i) ==
  IF ~result.ok \/ i > Len(images) THEN result
  ELSE LET r == ApiCall(result.heap, "Image.addBands",
                         <<images[i], Ref(result.id)>>)
       IN AppendBands([r EXCEPT !.init = r.init \/ result.init], images, i + 1)

\* The loop of combine_: result = addBands(result, images[i]) for images[i],
\* images[i+1], ... in turn.
AppendBands(result, images, i) ==
  IF ~result.ok \/ i > Len(images) THEN result
  ELSE LET r == ApiCall(result.heap, "Image.addBands",
                         <<Ref(result.id), images[i]>>)
       IN AppendBands([r EXCEPT !.init = r.init \/ result.init], images, i + 1)

combine_(h, images, opt_names) ==
  IF Len(images) = 0 THEN Threw(h, FALSE)
  ELSE LET result == AppendBands(Image(h, <<images[1]>>), images, 2) IN
       IF result.ok /\ Truthy(opt_names)
         THEN LET renamed == select(result.heap, result.id,
                                    <<List(<<Str(".*")>>), opt_names>>)
              IN [renamed EXCEPT !.init = renamed.init \/ result.init]
         ELSE result

Image(h, args) ==
  LET argCount == Len(args)
      opt_args == IF argCount = 0 THEN Undef ELSE args[1]
  IN
  IF ReturnsArgument(h, args) THEN Returned(h, opt_args.n, FALSE)
  ELSE IF IsEmptyCall(args) THEN
    LET image == Image(h, <<Num(0)>>)
        mask == Image(image.heap, <<Num(0)>>)
    IN NewImage(mask.heap, ApiFunction("Image.mask"),
                [image |-> Ref(image.id), mask |-> Ref(mask.id)])
  ELSE IF argCount = 1 THEN
    IF IsNumber(opt_args)
      THEN NewImage(h, ApiFunction("Image.constant"), [value |-> opt_args])
    ELSE IF IsString(opt_args)
      THEN NewImage(h, ApiFunction("Image.load"), [id |-> opt_args])
    ELSE IF IsArray(opt_args) THEN
      LET elems == ImageEach(h, opt_args.l, <<>>) IN
      IF elems.ok
        THEN [combine_(elems.heap, elems.vals, Undef) EXCEPT !.init = TRUE]
        ELSE Threw(h, TRUE)
    ELSE IF IsComputedObject(h, opt_args) THEN
      IF h[opt_args.n].name = "Array"
        THEN NewImage(h, ApiFunction("Image.constant"), [value |-> opt_args])
        ELSE NewImage(h, h[opt_args.n].func, h[opt_args.n].args)
    ELSE Threw(h, TRUE)
  ELSE IF argCount = 2 THEN
    IF IsIdAndVersion(args)
      THEN NewImage(h, ApiFunction("Image.load"),
                    [id |-> args[1], version |-> args[2]])
      ELSE Threw(h, TRUE)
  ELSE Threw(h, TRUE)

\* ee.Image.rgb
rgb(h, r, g, b) ==
  combine_(h, <<r, g, b>>,
           List(<<Str("vis-red"), Str("vis-green"), Str("vis-blue")>>))

\* ee.Image.cat
cat(h, args) == combine_(h, args, Undef)

(***************************************************************************)
(* ee.Image.prototype.expression                                           *)
(***************************************************************************)
\* var argName = 'DEFAULT_EXPRESSION_IMAGE'
argName == "DEFAULT_EXPRESSION_IMAGE"

\* vars: argName, then each name of opt_map in its enumeration order.
ExpressionVars(map) == <<argName>> \o [i \in DOMAIN map |-> map[i].name]

\* args: argName bound to the receiver, then args[name] = new ee.Image(value)
\* for each entry of opt_map in turn; a later assignment to a name replaces
\* an earlier one.
RECURSIVE ExpressionArgs(_, _, _, _)
ExpressionArgs(h, map, i, args) ==
  IF i > Len(map) THEN [ok |-> TRUE, heap |-> h, args |-> args]
  ELSE LET r == Image(h, <<map[i].val>>) IN
       IF r.ok
         THEN ExpressionArgs(r.heap, map, i + 1, (map[i].name :> Ref(r.id)) @@ args)
         ELSE [ok |-> FALSE, heap |-> h, args |-> args]

\* func.getSignature()
ExpressionSignature(varnames) ==
  [i \in DOMAIN varnames |->
     [name |-> varnames[i], type |-> "Image", optional |-> FALSE]]

\* ee.Function.prototype.apply(namedArgs): every parameter of the signature
\* must be given unless optional, every argument given must be a parameter.
FunctionApply(h, func, args) ==
  IF /\ \A i \in DOMAIN func.sig :
          func.sig[i].optional \/ func.sig[i].name \in DOMAIN args
     /\ \A a \in DOMAIN args : \E i \in DOMAIN func.sig : func.sig[i].name = a
    THEN NewImage(h, func, args)
    ELSE Threw(h, TRUE)

expression(h, self, text, map) ==
  LET vs == ExpressionVars(map)
      bound == ExpressionArgs(h, map, 1, (argName :> Ref(self)))
  IN IF ~bound.ok THEN Threw(h, TRUE)
     ELSE LET body == ApiCall(bound.heap, "Image.parseExpression",
                              <<Str(text), Str(argName),
                                List([i \in DOMAIN vs |-> Str(vs[i])])>>)
              func == [name |-> "", sig |-> ExpressionSignature(vs),
                       returns |-> "Image", body |-> body.id]
          IN FunctionApply(body.heap, func, bound.args)

(***************************************************************************)
(* ee.Image.initialize and ee.Image.reset                                  *)
(***************************************************************************)
\* ee.ApiFunction.importApi(ee.Image, prefix, 'Image', prepend): a member for
\* every signature of the namespace, named prepend + the operation's name.
importApi(m, reg, prefix, prepend) ==
  m \cup {[name |-> op.name, prepend |-> prepend] : op \in {o \in reg : o.ns = prefix}}

\* ee.ApiFunction.clearApi(ee.Image)
clearApi(m) == {}

\* The two imports of initialize.
ImportAll(m, reg) ==
  importApi(importApi(m, reg, "Image", ""), reg, "Window", "focal_")

\* An initialize that imports whatever the flag says.
NeedsImportAlways(flag) == TRUE

\* The guard of initialize.
NeedsImport(flag) == ~flag

\* The class state after ee.Image.initialize() ran on class state b.
Initialized(b, reg) ==
  IF NeedsImport(b.initialized_)
    THEN [initialized_ |-> TRUE, members |-> ImportAll(b.members, reg),
          imports |-> b.imports + 1]
    ELSE b

\* The class state after ee.Image.reset().
Cleared(b) == [initialized_ |-> FALSE, members |-> clearApi(b.members), imports |-> 0]

Class == [initialized_ |-> initialized_, members |-> members, imports |-> imports]

SetClass(b) ==
  /\ initialized_' = b.initialized_
  /\ members' = b.members
  /\ imports' = b.imports

(***************************************************************************)
(* The signature registry, which the API client fills and may refill.      *)
(***************************************************************************)
Op(ns, name) == [ns |-> ns, name |-> name]
\* Operations image.js itself calls: always registered.
CoreOps == {Op("Image", "addBands")}
ExtraOps == {Op("Image", "clip"), Op("Window", "max")}
Registries == {CoreOps \cup x : x \in SUBSET ExtraOps}

(***************************************************************************)
(* The inputs of the calls.                                                *)
(***************************************************************************)
ObjectIds(h) == 1..Len(h)
ImageIds(h) == {i \in 1..Len(h) : h[i].name = "Image"}
ImageRefs(h) == {Ref(i) : i \in ImageIds(h)}
Scalars == {Num(0), Num(1), Str("abc"), Undef, PlainObj}
\* Arguments after the first of a constructor call with k arguments.
Rest(k) == [i \in 1..(k - 1) |-> IF i = 1 THEN Num(1) ELSE Num(0)]

\* Constructor calls whose first argument is no array.
CtorArgs(h) ==
  {<<>>}
  \cup {<<v>> : v \in Scalars \cup {Ref(i) : i \in ObjectIds(h)}}
  \cup {<<v, w>> : v \in Scalars \cup ImageRefs(h), w \in {Num(1), Str("abc")}}
  \cup {<<v>> \o Rest(k) : v \in {Str("abc")} \cup ImageRefs(h), k \in 3..MaxLen}

\* The arrays given to the constructor.
ListElems(h) == {Num(1)} \cup ImageRefs(h)
CtorLists(h) ==
  SeqsUpTo(ListElems(h), MaxLen) \cup {<<PlainObj>>, <<Num(1), PlainObj>>}

\* select: bare selectors, among them one that is illegal, and explicit
\* arrays with and without new names.
SelectArgs(self) ==
  SeqsUpTo({Str("B1"), Num(0), Ref(self)}, MaxLen)
  \cup {[i \in 1..k |-> IF i = j THEN PlainObj ELSE Str("B1")] :
          k \in 1..MaxLen, j \in 1..MaxLen}
  \cup {<<List(l)>> : l \in SeqsUpTo({Str("B1"), Num(0)}, 2)}
  \cup {<<List(<<Num(1), PlainObj>>)>>}
  \cup {<<v, List(<<Str("x")>>)>> : v \in {List(<<Str("B1")>>), Undef, Ref(self)}}

\* expression: variable maps over each subset of the names, enumerated in
\* the order of VarNames.
VarNames == <<"b1", "b2", argName>>
RECURSIVE Maps(_, _)
Maps(i, vals) ==
  IF i > Len(VarNames) THEN {<<>>}
  ELSE LET rest == Maps(i + 1, vals) IN
       rest \cup {<<[name |-> VarNames[i], val |-> v]>> \o m : v \in vals, m \in rest}
ExpressionMaps(self) ==
  Maps(1, {Num(1), Ref(self)}) \cup {<<[name |-> "b1", val |-> PlainObj]>>}

(***************************************************************************)
(* Calls on the public surface.                                            *)
(***************************************************************************)
Outcome(op, self, args, names, r) ==
  [op |-> op, self |-> self, args |-> args, names |-> names,
   ok |-> r.ok, id |-> r.id, pre |-> Len(heap), after |-> ""]

\* A call that builds nodes: the heap keeps them unless the call threw, and
\* the class is initialized if the call reached ee.Image.initialize().
Effect(op, self, args, names, r) ==
  /\ heap' = IF r.ok THEN r.heap ELSE heap
  /\ SetClass(IF r.init THEN Initialized(Class, registry) ELSE Class)
  /\ last' = Outcome(op, self, args, names, r)
  /\ UNCHANGED <<registry, pc, calls>>

\* new ee.Image(...) with no argument or with scalars and objects.
Construct ==
  /\ Len(heap) < MaxHeap
  /\ \E args \in CtorArgs(heap) : Effect("Image", 0, args, <<>>, Image(heap, args))

\* new ee.Image([...])
ConstructList ==
  /\ Len(heap) < MaxHeap
  /\ \E l \in CtorLists(heap) :
       Effect("Image", 0, <<List(l)>>, <<>>, Image(heap, <<List(l)>>))

\* Another value type of the library builds an object that is no ee.Image.
NewComputedObject ==
  /\ Len(heap) < MaxHeap
  /\ \E n \in {"Array", "Feature"} :
       /\ heap' = Append(heap, [name |-> n, func |-> ApiFunction(n),
                                args |-> [value |-> Num(0)]])
       /\ last' = [op |-> n, self |-> 0, args |-> <<>>, names |-> <<>>,
                   ok |-> TRUE, id |-> Len(heap) + 1, pre |-> Len(heap),
                   after |-> ""]
  /\ UNCHANGED <<initialized_, members, registry, imports, pc, calls>>

Cat ==
  /\ Len(heap) <= MaxHeap
  /\ \E args \in SeqsUpTo(ImageRefs(heap), MaxLen) :
       Effect("cat", 0, args, <<>>, cat(heap, args))

Rgb ==
  /\ Len(heap) <= MaxHeap
  /\ \E r, g, b \in ImageRefs(heap) :
       Effect("rgb", 0, <<r, g, b>>, <<>>, rgb(heap, r, g, b))

Select ==
  /\ Len(heap) < MaxHeap
  /\ \E self \in ImageIds(heap) : \E args \in SelectArgs(self) :
       Effect("select", self, args, <<>>, select(heap, self, args))

Expression ==
  /\ Len(heap) < MaxHeap
  /\ \E self \in ImageIds(heap) : \E map \in ExpressionMaps(self) :
       Effect("expression", self,
              [i \in DOMAIN map |-> map[i].val],
              [i \in DOMAIN map |-> map[i].name],
              expression(heap, self, "b1+b2", map))

\* A call that builds no node; for a call of initialize, `after` is the
\* call made just before it.
NoCall(op, after) ==
  [op |-> op, self |-> 0, args |-> <<>>, names |-> <<>>,
   ok |-> TRUE, id |-> 0, pre |-> Len(heap), after |-> after]

Initialize ==
  /\ SetClass(Initialized(Class, registry))
  /\ last' = NoCall("initialize", last.op)
  /\ UNCHANGED <<heap, registry, pc, calls>>

Reset ==
  /\ SetClass(Cleared(Class))
  /\ last' = NoCall("reset", "")
  /\ UNCHANGED <<heap, registry, pc, calls>>

\* The API client loads another list of signatures.
RegistryChange ==
  /\ \E reg \in Registries \ {registry} : registry' = reg
  /\ last' = NoCall("registry", "")
  /\ UNCHANGED <<heap, initialized_, members, imports, pc, calls>>

Init ==
  /\ heap = <<>>
  /\ initialized_ = FALSE
  /\ members = {}
  /\ registry = CoreOps \cup ExtraOps
  /\ imports = 0
  /\ last = NoCall("load", "")
  /\ pc = <<>>
  /\ calls = <<>>

\* The constructor and the life cycle of the class.
Next ==
  \/ Construct
  \/ NewComputedObject
  \/ Initialize
  \/ Reset
  \/ RegistryChange

Spec == Init /\ [][Next]_vars

\* Band combination.
NextCombine ==
  \/ Construct
  \/ ConstructList
  \/ Cat
  \/ Rgb

SpecCombine == Init /\ [][NextCombine]_vars

\* Band selection.
NextSelect ==
  \/ Construct
  \/ Select

SpecSelect == Init /\ [][NextSelect]_vars

\* Expressions.
NextExpression ==
  \/ Construct
  \/ Expression

SpecExpression == Init /\ [][NextExpression]_vars

(***************************************************************************)
(* ee.Image.initialize run by interleaved callers, one step for each of    *)
(* its statements.                                                         *)
(***************************************************************************)
Callers == 1..NumCallers

\* An initialize that leaves the flag as it was.
FlagNeverSet == FALSE

\* `ee.Image.initialized_ = true`
FlagAfterInitialize == TRUE

Enter(c) ==
  /\ pc[c] = "idle"
  /\ calls[c] < MaxCalls
  /\ pc' = [pc EXCEPT ![c] = "test"]
  /\ calls' = [calls EXCEPT ![c] = @ + 1]
  /\ UNCHANGED <<heap, initialized_, members, registry, imports, last>>

\* if (!ee.Image.initialized_)
TestFlag(c) ==
  /\ pc[c] = "test"
  /\ pc' = [pc EXCEPT ![c] = IF NeedsImport(initialized_) THEN "importImage" ELSE "idle"]
  /\ UNCHANGED <<heap, initialized_, members, registry, imports, last, calls>>

\* ee.ApiFunction.importApi(ee.Image, 'Image', 'Image')
ImportImage(c) ==
  /\ pc[c] = "importImage"
  /\ members' = importApi(members, registry, "Image", "")
  /\ imports' = imports + 1
  /\ pc' = [pc EXCEPT ![c] = "importWindow"]
  /\ UNCHANGED <<heap, initialized_, registry, last, calls>>

\* ee.ApiFunction.importApi(ee.Image, 'Window', 'Image', 'focal_')
ImportWindow(c) ==
  /\ pc[c] = "importWindow"
  /\ members' = importApi(members, registry, "Window", "focal_")
  /\ pc' = [pc EXCEPT ![c] = "setFlag"]
  /\ UNCHANGED <<heap, initialized_, registry, imports, last, calls>>

SetFlag(c) ==
  /\ pc[c] = "setFlag"
  /\ initialized_' = FlagAfterInitialize
  /\ pc' = [pc EXCEPT ![c] = "idle"]
  /\ UNCHANGED <<heap, members, registry, imports, last, calls>>

InitConcurrent ==
  /\ heap = <<>>
  /\ initialized_ = FALSE
  /\ members = {}
  /\ registry \in Registries
  /\ imports = 0
  /\ last = NoCall("load", "")
  /\ pc = [c \in Callers |-> "idle"]
  /\ calls = [c \in Callers |-> 0]

NextConcurrent ==
  \E c \in Callers :
    \/ Enter(c)
    \/ TestFlag(c)
    \/ ImportImage(c)
    \/ ImportWindow(c)
    \/ SetFlag(c)

SpecConcurrent == InitConcurrent /\ [][NextConcurrent]_vars

(***************************************************************************)
(* Properties.                                                             *)
(***************************************************************************)
\* The heap as the last call found it: nodes are only ever appended.
PreHeap == SubSeq(heap, 1, last.pre)

\* An ee.Image call node over an API function.
Node(func, args) == [name |-> "Image", func |-> ApiFunction(func), args |-> args]

IsConstructorCall == last.op = "Image"

\* C1: for every x that is already an Image, Image(x) returns x itself, the
\* same object, and adds no node to the graph.
C1_ImageOfImageIsArgument ==
  (IsConstructorCall /\ Len(last.args) = 1 /\ IsImage(PreHeap, last.args[1]))
    => (last.ok /\ last.id = last.args[1].n /\ heap = PreHeap)

C1_Witness ==
  /\ IsConstructorCall /\ Len(last.args) = 1 /\ IsImage(PreHeap, last.args[1])
  /\ last.ok /\ last.id = last.args[1].n

\* C2: Image() is mask(constant(0), constant(0)); Image(n) for a number n is
\* constant(value=n); Image(s) for a string s is load(id=s) with no version;
\* Image(s, v) for a string and a number is load(id=s, version=v).  Each
\* call returns one new root node.
C2_LiteralShapes ==
  IsConstructorCall =>
    /\ last.args = <<>> =>
         /\ last.ok /\ last.id = Len(heap) /\ Len(heap) = last.pre + 3
         /\ heap[last.id].name = "Image"
         /\ heap[last.id].func = ApiFunction("Image.mask")
         /\ DOMAIN heap[last.id].args = {"image", "mask"}
         /\ \A a \in {"image", "mask"} :
              /\ heap[last.id].args[a].k = "ref"
              /\ heap[last.id].args[a].n \in (last.pre + 1)..(last.pre + 2)
              /\ heap[heap[last.id].args[a].n] = Node("Image.constant", [value |-> Num(0)])
    /\ (Len(last.args) = 1 /\ last.args[1].k = "num") =>
         /\ last.ok /\ last.id = Len(heap) /\ Len(heap) = last.pre + 1
         /\ heap[last.id] = Node("Image.constant", [value |-> last.args[1]])
    /\ (Len(last.args) = 1 /\ last.args[1].k = "str") =>
         /\ last.ok /\ last.id = Len(heap) /\ Len(heap) = last.pre + 1
         /\ heap[last.id] = Node("Image.load", [id |-> last.args[1]])
    /\ (Len(last.args) = 2 /\ last.args[1].k = "str" /\ last.args[2].k = "num") =>
         /\ last.ok /\ last.id = Len(heap) /\ Len(heap) = last.pre + 1
         /\ heap[last.id] = Node("Image.load", [id |-> last.args[1], version |-> last.args[2]])

C2_Witness ==
  /\ IsConstructorCall /\ last.ok
  /\ last.args = <<Str("abc"), Num(1)>>
  /\ heap[last.id] = Node("Image.load", [id |-> Str("abc"), version |-> Num(1)])

\* A call that matches no row of the dispatch table of the constructor.
MatchesNoRow(h, args) ==
  \/ Len(args) >= 3
  \/ Len(args) = 2 /\ ~(args[1].k = "str" /\ args[2].k = "num")
  \/ Len(args) = 1 /\ args[1].k \notin {"num", "str", "list"}
                   /\ ~(args[1].k = "ref" /\ args[1].n \in 1..Len(h))

\* C3: every constructor call that matches no row of the dispatch table
\* (three or more arguments; two arguments that are not a string and a
\* number; one argument that is no number, string, sequence or graph-typed
\* object) fails and returns no Image.
C3_UnmatchedCallFails ==
  (IsConstructorCall /\ MatchesNoRow(PreHeap, last.args))
    => (~last.ok /\ heap = PreHeap)

\* The image that node `id` stands for is the one the constructor makes of
\* `elem`: `elem` itself when it is an image of the heap before the call, a
\* new constant(value=elem) when it is a number.
IsImageOf(h, pre, id, elem) ==
  IF elem.k = "ref"
    THEN id = elem.n /\ id <= pre
    ELSE /\ elem.k = "num" /\ id > pre /\ id <= Len(h)
         /\ h[id] = Node("Image.constant", [value |-> elem])

\* Node `id` is addBands(...addBands(Image(elems[1]), elems[2])..., elems[n]).
RECURSIVE IsLeftFold(_, _, _, _, _)
IsLeftFold(h, pre, id, elems, n) ==
  IF n = 1 THEN IsImageOf(h, pre, id, elems[1])
  ELSE /\ id > pre /\ id <= Len(h)
       /\ h[id].name = "Image"
       /\ h[id].func = ApiFunction("Image.addBands")
       /\ DOMAIN h[id].args = {"arg1", "arg2"}
       /\ h[id].args.arg2.k = "ref"
       /\ IsImageOf(h, pre, h[id].args.arg2.n, elems[n])
       /\ h[id].args.arg1.k = "ref"
       /\ IsLeftFold(h, pre, h[id].args.arg1.n, elems, n - 1)

VisNames == List(<<Str("vis-red"), Str("vis-green"), Str("vis-blue")>>)

\* The sequences of images the model combines: images and numbers.
IsCombinable(elems) == \A i \in DOMAIN elems : elems[i].k \in {"ref", "num"}

\* C4: combining N >= 1 images by Image(sequence), cat(...) or rgb(r, g, b)
\* gives the left-to-right fold of addBands in the order of the input; the
\* fold is the input of select(['.*'], names) exactly when names are given,
\* which only rgb does; combining no image fails and builds no node.
C4_CombineIsLeftFold ==
  /\ (last.op = "cat" /\ last.args # <<>>) =>
       /\ last.ok
       /\ IsLeftFold(heap, last.pre, last.id, last.args, Len(last.args))
       /\ Len(heap) = last.pre + Len(last.args) - 1
  /\ (last.op = "cat" /\ last.args = <<>>) => (~last.ok /\ heap = PreHeap)
  /\ last.op = "rgb" =>
       /\ last.ok /\ last.id = Len(heap) /\ Len(heap) = last.pre + 3
       /\ heap[last.id].name = "Image"
       /\ heap[last.id].func = ApiFunction("Image.select")
       /\ DOMAIN heap[last.id].args = {"input", "bandSelectors", "newNames"}
       /\ heap[last.id].args.bandSelectors = List(<<Str(".*")>>)
       /\ heap[last.id].args.newNames = VisNames
       /\ heap[last.id].args.input.k = "ref"
       /\ IsLeftFold(heap, last.pre, heap[last.id].args.input.n, last.args, 3)
  /\ (IsConstructorCall /\ Len(last.args) = 1 /\ last.args[1].k = "list"
        /\ IsCombinable(last.args[1].l)) =>
       IF last.args[1].l = <<>> THEN ~last.ok /\ heap = PreHeap
       ELSE /\ last.ok
            /\ IsLeftFold(heap, last.pre, last.id, last.args[1].l, Len(last.args[1].l))

C4_Witness ==
  /\ last.op = "cat" /\ last.ok /\ Len(last.args) = 3
  /\ last.args[1] # last.args[2]
  /\ IsLeftFold(heap, last.pre, last.id, last.args, 3)

\* The image call node select builds over a receiver and its arguments.
SelectNode(self, args) == Node("Image.select", [input |-> Ref(self)] @@ args)

AllNamesOrIndices(args) == \A i \in DOMAIN args : args[i].k \in {"str", "num"}

\* C5: for selectors s1..sk, k >= 1, that are strings or numbers,
\* select(s1, ..., sk) builds the node select([s1, ..., sk]) builds:
\* select(input=self, bandSelectors=[s1..sk]) with no newNames; select()
\* builds select(input=self, bandSelectors=[]).
C5_VarargsIsExplicitList ==
  last.op = "select" =>
    /\ (last.args # <<>> /\ AllNamesOrIndices(last.args)) =>
         /\ last.ok /\ last.id = Len(heap) /\ Len(heap) = last.pre + 1
         /\ heap[last.id] = SelectNode(last.self, [bandSelectors |-> List(last.args)])
         /\ LET explicit == select(PreHeap, last.self, <<List(last.args)>>)
            IN explicit.ok /\ explicit.heap[explicit.id] = heap[last.id]
    /\ last.args = <<>> =>
         /\ last.ok /\ last.id = Len(heap) /\ Len(heap) = last.pre + 1
         /\ heap[last.id] = SelectNode(last.self, [bandSelectors |-> List(<<>>)])

C5_Witness ==
  /\ last.op = "select" /\ last.ok
  /\ last.args = <<Num(0), Str("B1"), Str("B1")>>
  /\ heap[last.id] = SelectNode(last.self, [bandSelectors |-> List(last.args)])

\* The selector list of a select call: none when no selector is given, the
\* elements of an explicit sequence, a graph-typed value by itself, or else
\* the bare arguments.
Selectors(args) ==
  IF args = <<>> \/ args[1].k = "undef" THEN <<>>
  ELSE IF args[1].k = "list" THEN args[1].l
  ELSE IF args[1].k = "ref" THEN <<args[1]>>
  ELSE args

\* An element that is no string, no number and no graph-typed value.
IsOffending(v) == v.k \notin {"str", "num", "ref"}

HasOffending(elems) == \E i \in DOMAIN elems : IsOffending(elems[i])

C7_ExpressionBindsReceiver ==
  (last.op = "expression" /\ last.ok) =>
    LET node == heap[last.id] IN
    /\ Len(node.func.sig) = 1 + Len(last.names)
    /\ \A i \in DOMAIN node.func.sig :
         node.func.sig[i].type = "Image" /\ ~node.func.sig[i].optional
    /\ node.func.returns = "Image"
    /\ DOMAIN node.args = {argName} \cup {last.names[i] : i \in DOMAIN last.names}
    /\ node.args[argName] = Ref(last.self)
    /\ \A i \in DOMAIN last.names :
         /\ node.args[last.names[i]].k = "ref"
         /\ IsImageOf(heap, last.pre, node.args[last.names[i]].n, last.args[i])

\* The same, for maps that do not use the reserved name.
C7_WithoutReservedName ==
  (\A i \in DOMAIN last.names : last.names[i] # argName) => C7_ExpressionBindsReceiver

\* The API members are installed on the class.
MembersInstalled == members # {}

\* What one step of the life cycle may do.
C8_Step ==
  /\ (last'.op = "initialize" /\ initialized_) =>
       (initialized_' /\ members' = members /\ imports' = imports)
  /\ (last'.op = "initialize" /\ ~initialized_) =>
       (initialized_' /\ members' = ImportAll({}, registry) /\ imports' = 1)
  /\ last'.op = "reset" => (~initialized_' /\ members' = {} /\ imports' = 0)
  /\ imports' <= 1
  /\ initialized_' <=> MembersInstalled'

\* C8: initialize called while the flag is true imports nothing and leaves
\* the installed members as they are, so that the registry is imported at
\* most once between two resets; reset removes every installed member and
\* clears the flag; the first initialize after a reset installs the members
\* of the registry as it is then; and the flag is true exactly when the
\* members are installed.
C8_InitializeOncePerReset == [][C8_Step]_vars

C8_Witness ==
  /\ last.op = "initialize" /\ last.after = "reset"
  /\ registry = CoreOps
  /\ heap # <<>>
  /\ initialized_ /\ members = ImportAll({}, registry) /\ imports = 1

\* C9: after any call of the constructor, returned or failed, the flag is
\* true and the API members are installed.
C9_ConstructionInitializes ==
  IsConstructorCall => (initialized_ /\ MembersInstalled)

\* The same, for the calls that do not return their argument.
C9_UnlessArgumentReturned ==
  (IsConstructorCall /\ ~ReturnsArgument(PreHeap, last.args))
    => (initialized_ /\ MembersInstalled)

\* C10, as claimed: two interleaved callers of initialize, with no reset,
\* import the API at most once between them.
C10_ImportedAtMostOnce == imports <= 1

AllIdle == \A c \in Callers : pc[c] = "idle"

\* C10, amended: each caller that read the flag before any caller set it
\* imports once, so that interleaved callers import at most once each; and
\* when no call is in progress and one was made, the flag is true and the
\* members are those of one import.
C10_ImportedAtMostOncePerCaller ==
  /\ imports <= NumCallers
  /\ initialized_ => (imports >= 1 /\ MembersInstalled)
  /\ (AllIdle /\ \E c \in Callers : calls[c] > 0) =>
       (initialized_ /\ members = ImportAll({}, registry))

C10_Witness ==
  /\ AllIdle /\ imports = 2 /\ initialized_
  /\ members = ImportAll({}, registry)

====
